---- MODULE Spec2Model ----
(***************************************************************************)
(* Model of the map viewer's cycling controller, the React hook            *)
(* useCountryCycling (src/src/hooks/useCountryCycling.ts), together with   *)
(* the country selector it draws from (src/src/lib/countries.ts).          *)
(*                                                                         *)
(* React semantics used by the model.  Every event (an API call made       *)
(* through the functions of the latest render, a listener firing, a timer  *)
(* callback, a change of the timeoutPrevented prop, unmount) is one atomic *)
(* step: the handler runs with the values its closure captured, the queued *)
(* setState updaters are applied, the hook re-renders, the cleanups of the *)
(* effects whose dependencies changed run, then their bodies run in        *)
(* declaration order, and this repeats until no state value changes.       *)
(* Time is counted in ticks; a timer holds the ticks left before it fires. *)
(*                                                                         *)
(* The class CountrySelector is also modelled on its own, over catalogs of *)
(* every size up to MaxCatalog and every configured maxRecentSize up to    *)
(* MaxConfigured (specification SelectorSpec).                             *)
(*                                                                         *)
(* The loader of the maps script (src/src/lib/google-maps.ts) with the     *)
(* retry wrapper ErrorHandler.executeWithRetry and the categorization      *)
(* createMapError (error-handling.ts) is specification LoaderSpec.  A      *)
(* step is one task of the event loop (a call, a script event, a timer) or *)
(* one promise continuation; continuations run before the next task.       *)
(***************************************************************************)
EXTENDS Integers, Sequences, FiniteSets, TLC

\* ---------------------------------------------------------------- bounds
\* size of the catalog COUNTRIES (the indices stand for the country codes)
NumCountries == 3
\* the cycleInterval option, in ticks
CycleInterval == 2
\* the idleTimeout option, in ticks
IdleTimeout == 3
\* the selection counters stop counting at this value
MaxSelections == 3
\* setTimeout(() => start(), 0) callbacks pending at the same time
MaxPendingStarts == 2
\* SelectorSpec: largest catalog, largest maxRecentSize passed to the
\* constructor, and the value at which the call counter stops counting
MaxCatalog == 4
MaxConfigured == 3
MaxCalls == 5
\* LoaderSpec: executeWithRetry calls begun by load() that the model follows
MaxLoads == 2
MaxPendingZooms == 2
MaxWords == 2
MaxMaxRetries == 2
MaxRetryDelay == 2
MaxExecutes == 2

\* ------------------------------------------------------ program constants
\* default of CountrySelector's maxRecentSize
DefaultMaxRecentSize == 5
\* delay of the settling timeout of the last effect (100 ms), in ticks
SettleDelay == 1
NoTimer == -1
NoCountry == 0
NoElement == 0
COUNTRIES == [i \in 1..NumCountries |-> i]
Elements == {1, 2}
\* const eventTypes = [...] in setupUserInteractionDetection
eventTypes == <<"mousedown", "mousemove", "wheel", "touchstart", "touchmove", "keydown">>
\* a value of Math.random(), as a multiple of 1/NumCountries
Draw == 0..(NumCountries - 1)
\* the selection throws instead of drawing (an advance may meet this)
Throw == -1
AdvanceDraw == Draw \cup {Throw}
Min(a, b) == IF a < b THEN a ELSE b

VARIABLES
  phase,             \* "created" (rendered, effects not yet run), "mounted", "unmounted"
  autoStart,         \* option autoStart
  timeoutPrevented,  \* option timeoutPrevented (a prop, it changes over time)
  isActive,          \* state.isActive
  isPaused,          \* state.isPaused
  currentCountry,    \* state.currentCountry (NoCountry = null)
  cycleTimer,        \* the interval behind cycleTimerRef: ticks left, or NoTimer
  idleTimer,         \* the timeout behind idleTimerRef: ticks left, or NoTimer
  liveIntervals,     \* intervals made by setInterval and neither cleared nor lost
  liveTimeouts,      \* idle timeouts made by setTimeout, not yet fired or cleared
  settleTimer,       \* the 100 ms timeout of the last effect: ticks left, or NoTimer
  startTimeouts,     \* pending setTimeout(() => start(), 0): the currentCountry each start captured
  listeners,         \* userInteractionListenersRef: one [element, eventType] for each
                     \* attached listener, in the order their cleanups were pushed
  boundElement,      \* the element given to the bind call that just returned
                     \* (NoElement for null, and after every other step)
  handlerTp,         \* timeoutPrevented captured by the attached handleUserInteraction
  recentlySelected,  \* countrySelector.recentlySelected, in insertion order
  selections,        \* calls of getRandomCountryWithoutRepetition so far (up to MaxSelections)
  lastError,         \* what the last step did with an error: "none", "logged" (caught,
                     \* console.error), "uncaught" (it left the handler)
  lastOp,            \* the last step taken
  lastCall,          \* the last step that was not a timer: its name, the state it
                     \* started from, whether it was the first one after mount,
                     \* whether it is a pause() of a Running controller with the
                     \* override off, or an interaction that followed one
  quiet,             \* ticks elapsed since the last step that was not a timer
  sinceCall,         \* selections made since the last step that was not a timer
  selector,          \* SelectorSpec: a CountrySelector instance and what it returned:
                     \*   length            COUNTRIES.length of its catalog
                     \*   maxRecentSize     this.maxRecentSize
                     \*   recentlySelected  this.recentlySelected, in insertion order
                     \*   returned          the codes returned by the last calls, oldest first
                     \*   calls             consecutive calls made (up to MaxCalls)
                     \*   clears            times the calls cleared recentlySelected (up to MaxCalls)
                     \*   retries           recursive calls made by the last call
                     \*   configured        the maxRecentSize given to the constructor
  loader,            \* LoaderSpec: the module state of google-maps.ts and its environment:
                     \*   isLoading, isLoaded, loadPromise (index into chains, 0 = null)
                     \*   retryCount  errorHandler.retryCount
                     \*   online      navigator.onLine
                     \*   key         what validateGoogleMapsApiKey finds
                     \*   google      window.google: "none", "partial" (google.maps
                     \*               without MapTypeId), "ready"
                     \*   chains      the executeWithRetry calls begun by load()
                     \*   op          the last step: "load", "query", "reset", "continue",
                     \*               "failure" (script error or timeout), "event"
                     \*   last        what the last load() call did: "joined" the pending
                     \*               promise, "resolved" or "rejected" at once, "started"
                     \*               an executeWithRetry call
                     \*   thrown      the error the last load() call rejected with at once
                     \*   resolved    a load() has resolved since the last reset
  cycler,            \* CountryCycler.tsx and the map it drives
                     \*   country       state.currentCountry of the hook
                     \*   center, zoom  the country the map was last panned / zoomed to
                     \*   notified      the country last given to onCountryChange
                     \*   zoomTimeouts  pending setTimeout(() => map.setZoom(..), 200):
                     \*                 the country each one captured, oldest first
                     \*   lastError     what the last step did with an error of the
                     \*                 map: "none", "logged", "uncaught"
                     \*   op            the last step
  categorized,       \* one call of createMapError(error, context):
                     \*   text    the message of the Error given (a set of phrases)
                     \*   object  the value given is a MapError object, not an Error
                     \*   given   the context given, "absent" when left out
                     \*   result  the MapError returned, NoError before the call
                     \*   again   the context of a second call, given the result
                     \*   second  the MapError the second call returned
  handler            \* an ErrorHandler, its environment and the executeWithRetry
                     \* call made on it last:
                     \*   maxRetries, retryDelay, retryCount   the fields of the class
                     \*   online       navigator.onLine
                     \*   calls        executeWithRetry calls begun so far
                     \*   given        the context given to the call ("absent": left out)
                     \*   phase        "idle" (no call yet), "invoked" (fn is running),
                     \*                "waiting" (the retry delay), "resolved", "rejected"
                     \*   fresh        retryCount was 0 when the call began
                     \*   invocations  invocations of fn by the call
                     \*   waits        the retry delays of the call, in order
                     \*   first, last  the categorized errors of the first and of
                     \*                the last failure of fn in the call
                     \*   thrown       what the call rejected with
                     \*   op           the last step

hookVars == <<phase, autoStart, timeoutPrevented, isActive, isPaused, currentCountry,
              cycleTimer, idleTimer, liveIntervals, liveTimeouts, settleTimer,
              startTimeouts, listeners, boundElement,
              handlerTp, recentlySelected, selections, lastError, lastOp, lastCall, quiet, sinceCall>>

vars == <<hookVars, selector, loader, cycler, categorized, handler>>

\* ------------------------------------------------------ country selector
maxRecentSize == Min(DefaultMaxRecentSize, NumCountries - 1)

availableCountries(recent) ==
  SelectSeq(COUNTRIES, LAMBDA c : \A i \in 1..Len(recent) : recent[i] # c)

\* rnd/NumCountries stands for the value of Math.random()
RECURSIVE selectRandomCountry(_, _)
selectRandomCountry(recent, rnd) ==
  LET av == availableCountries(recent) IN
  IF Len(av) = 0
  THEN selectRandomCountry(<<>>, rnd)
  ELSE LET randomIndex == (rnd * Len(av)) \div NumCountries
           selectedCountry == av[randomIndex + 1]
           added == Append(recent, selectedCountry)
           kept == IF Len(added) > maxRecentSize THEN Tail(added) ELSE added
       IN [country |-> selectedCountry, recentlySelected |-> kept]

getRandomCountryWithoutRepetition(recent, rnd) == selectRandomCountry(recent, rnd)

\* ------------------------------------------------------------- the hook
\* The store h is the hook's mutable data during one step: the pending
\* state (setState updaters applied), the refs, the timers of the event
\* loop, the selector and the random draws still unused.
Store(draws) ==
  [mounted |-> phase # "unmounted", autoStart |-> autoStart,
   timeoutPrevented |-> timeoutPrevented,
   isActive |-> isActive, isPaused |-> isPaused, currentCountry |-> currentCountry,
   cycleTimer |-> cycleTimer, idleTimer |-> idleTimer, settleTimer |-> settleTimer,
   liveIntervals |-> liveIntervals, liveTimeouts |-> liveTimeouts,
   startTimeouts |-> startTimeouts, listeners |-> listeners, handlerTp |-> handlerTp,
   recentlySelected |-> recentlySelected, selections |-> selections,
   error |-> "none", bound |-> NoElement, draws |-> draws]

\* what the closures of one render see
Render(h) ==
  [isActive |-> h.isActive, isPaused |-> h.isPaused,
   currentCountry |-> h.currentCountry, timeoutPrevented |-> h.timeoutPrevented]

\* setState(prev => ({...prev, ...})): nothing happens once unmounted
setActivePaused(h, a, p) ==
  IF h.mounted THEN [h EXCEPT !.isActive = a, !.isPaused = p] ELSE h
setPaused(h, p) ==
  IF h.mounted THEN [h EXCEPT !.isPaused = p] ELSE h
setCurrentCountry(h, c) ==
  IF h.mounted THEN [h EXCEPT !.currentCountry = c] ELSE h

\* clearInterval(cycleTimerRef.current) where the ref holds a timer
clearCycleTimer(h) ==
  IF h.cycleTimer = NoTimer THEN h
  ELSE [h EXCEPT !.cycleTimer = NoTimer, !.liveIntervals = @ - 1]

\* clearTimeout(idleTimerRef.current): of no effect on a timeout that has fired
clearIdleTimer(h) ==
  IF h.idleTimer = NoTimer THEN h
  ELSE [h EXCEPT !.idleTimer = NoTimer, !.liveTimeouts = @ - 1]

clearTimers(h) == clearIdleTimer(clearCycleTimer(h))

clearUserInteractionListeners(h) == [h EXCEPT !.listeners = <<>>]

\* mutant of nextCountry: no try/catch, the error leaves the handler
nextCountry_NoCatch(h) ==
  IF Head(h.draws) = Throw
  THEN [h EXCEPT !.selections = @ + 1, !.draws = Tail(@), !.error = "uncaught"]
  ELSE LET r == getRandomCountryWithoutRepetition(h.recentlySelected, Head(h.draws))
           h1 == [h EXCEPT !.recentlySelected = r.recentlySelected,
                           !.selections = @ + 1,
                           !.draws = Tail(@)]
       IN setCurrentCountry(h1, r.country)

nextCountry(h) ==
  IF Head(h.draws) = Throw
  THEN \* catch (error): console.error, nothing else
       [h EXCEPT !.selections = @ + 1, !.draws = Tail(@), !.error = "logged"]
  ELSE LET r == getRandomCountryWithoutRepetition(h.recentlySelected, Head(h.draws))
           h1 == [h EXCEPT !.recentlySelected = r.recentlySelected,
                           !.selections = @ + 1,
                           !.draws = Tail(@)]
       IN setCurrentCountry(h1, r.country)

\* mutant of startCycleTimer: the interval is one tick too long
startCycleTimer_Late(h) ==
  [clearCycleTimer(h) EXCEPT !.cycleTimer = CycleInterval + 1, !.liveIntervals = @ + 1]

\* mutant of startCycleTimer: the interval the ref holds is not cleared
startCycleTimer_NoClear(h) ==
  [h EXCEPT !.cycleTimer = CycleInterval, !.liveIntervals = @ + 1]

startCycleTimer(h) ==
  [clearCycleTimer(h) EXCEPT !.cycleTimer = CycleInterval, !.liveIntervals = @ + 1]

\* mutant of handleUserInteraction: the override check is missing
handleUserInteraction_NoOverrideCheck(h, tp) ==
  LET h1 == IF ~h.isActive \/ h.isPaused THEN h ELSE setPaused(h, TRUE)
  IN [clearTimers(h1) EXCEPT !.idleTimer = IdleTimeout, !.liveTimeouts = @ + 1]

\* tp: the timeoutPrevented the callback captured
handleUserInteraction(h, tp) ==
  IF tp THEN h
  ELSE LET h1 == IF ~h.isActive \/ h.isPaused THEN h ELSE setPaused(h, TRUE)
       IN [clearTimers(h1) EXCEPT !.idleTimer = IdleTimeout, !.liveTimeouts = @ + 1]

\* the callback of the idle timer
idleTimerCallback(h) ==
  LET h1 == [h EXCEPT !.idleTimer = NoTimer, !.liveTimeouts = @ - 1]
  IN IF ~h1.isActive THEN h1 ELSE setPaused(h1, FALSE)

\* country: the state.currentCountry the callback captured
start(h, country) ==
  LET h1 == setActivePaused(h, TRUE, FALSE)
      h2 == IF country = NoCountry THEN nextCountry(h1) ELSE h1
  IN startCycleTimer(h2)

stop(h) == clearTimers(setActivePaused(h, FALSE, FALSE))

pause(h) == clearTimers(setPaused(h, TRUE))

\* active: the state.isActive the callback captured
resume(h, active) ==
  IF ~active THEN h ELSE startCycleTimer(setPaused(h, FALSE))

\* the listeners one bind attaches: element.addEventListener for each event type
addListeners(element) ==
  [k \in 1..Len(eventTypes) |-> [element |-> element, eventType |-> eventTypes[k]]]

\* mutant of setupUserInteractionDetection: the existing listeners are kept
setupUserInteractionDetection_NoClear(h, element, tp) ==
  IF element = NoElement THEN h
  ELSE [h EXCEPT !.listeners = @ \o addListeners(element), !.handlerTp = tp,
                 !.bound = element]

setupUserInteractionDetection(h, element, tp) ==
  LET h1 == clearUserInteractionListeners(h)
  IN IF element = NoElement THEN h1
     ELSE [h1 EXCEPT !.listeners = @ \o addListeners(element), !.handlerTp = tp,
                     !.bound = element]

\* ---- the four effects; r is the render whose closures they hold
mountEffectCleanup(h) == clearUserInteractionListeners(clearTimers(h))

mountEffect(h, r) ==
  LET h1 == IF r.currentCountry = NoCountry THEN nextCountry(h) ELSE h
  IN IF h.autoStart /\ ~r.timeoutPrevented THEN start(h1, r.currentCountry) ELSE h1

stateChangeEffect(h, r) ==
  IF r.isActive /\ ~r.isPaused
  THEN IF h.cycleTimer = NoTimer THEN startCycleTimer(h) ELSE h
  ELSE clearCycleTimer(h)

\* mutant of timeoutPreventionEffect: activating the override pauses nothing
timeoutPreventionEffect_NoForcedPause(h, r) ==
  IF r.timeoutPrevented
  THEN h
  ELSE IF r.isActive /\ r.isPaused THEN setPaused(h, FALSE)
       ELSE IF ~r.isActive /\ h.autoStart
            THEN [h EXCEPT !.startTimeouts = Append(@, r.currentCountry)]
            ELSE h

\* mutant of timeoutPreventionEffect: lifting the override does not clear isPaused
timeoutPreventionEffect_NoResume(h, r) ==
  IF r.timeoutPrevented
  THEN IF r.isActive THEN setPaused(clearTimers(h), TRUE) ELSE h
  ELSE IF ~r.isActive /\ h.autoStart
       THEN [h EXCEPT !.startTimeouts = Append(@, r.currentCountry)]
       ELSE h

timeoutPreventionEffect(h, r) ==
  IF r.timeoutPrevented
  THEN IF r.isActive THEN setPaused(clearTimers(h), TRUE) ELSE h
  ELSE IF r.isActive /\ r.isPaused THEN setPaused(h, FALSE)
       ELSE IF ~r.isActive /\ h.autoStart
            THEN [h EXCEPT !.startTimeouts = Append(@, r.currentCountry)]
            ELSE h

settleEffectCleanup(h) == [h EXCEPT !.settleTimer = NoTimer]

\* the callback of the settling timeout
settleTimerCallback(h) == startCycleTimer([h EXCEPT !.settleTimer = NoTimer])

settleEffect(h, r) ==
  IF ~r.timeoutPrevented /\ r.isActive /\ ~r.isPaused /\ h.cycleTimer = NoTimer
  THEN [h EXCEPT !.settleTimer = SettleDelay]
  ELSE h

\* the effects of the first render: all of them, no cleanup
RunMountEffects(h, r) ==
  settleEffect(timeoutPreventionEffect(stateChangeEffect(mountEffect(h, r), r), r), r)

\* the effects of a re-render: old is the previous render, r the new one
RunEffects(h, old, r) ==
  LET dTp     == old.timeoutPrevented # r.timeoutPrevented
      dCur    == old.currentCountry # r.currentCountry
      dState  == old.isActive # r.isActive \/ old.isPaused # r.isPaused
      d1 == dTp \/ dCur
      d2 == dState
      d3 == dTp \/ dState \/ dCur
      d4 == dTp \/ dState
      c1 == IF d1 THEN mountEffectCleanup(h) ELSE h
      c4 == IF d4 THEN settleEffectCleanup(c1) ELSE c1
      e1 == IF d1 THEN mountEffect(c4, r) ELSE c4
      e2 == IF d2 THEN stateChangeEffect(e1, r) ELSE e1
      e3 == IF d3 THEN timeoutPreventionEffect(e2, r) ELSE e2
  IN IF d4 THEN settleEffect(e3, r) ELSE e3

\* re-render until the state values no longer change
RECURSIVE Commit(_, _)
Commit(h, old) ==
  IF ~h.mounted \/ Render(h) = old THEN h
  ELSE Commit(RunEffects(h, old, Render(h)), Render(h))

unmount(h) ==
  [settleEffectCleanup(mountEffectCleanup(h)) EXCEPT !.mounted = FALSE]

\* ------------------------------------------------------------ the steps
Status == IF ~isActive THEN "Stopped" ELSE IF isPaused THEN "RunningPaused" ELSE "Running"

Install(h, op, isCall) ==
  /\ Len(h.startTimeouts) <= MaxPendingStarts
  /\ isActive' = h.isActive
  /\ isPaused' = h.isPaused
  /\ currentCountry' = h.currentCountry
  /\ timeoutPrevented' = h.timeoutPrevented
  /\ cycleTimer' = h.cycleTimer
  /\ idleTimer' = h.idleTimer
  /\ liveIntervals' = h.liveIntervals
  /\ liveTimeouts' = h.liveTimeouts
  /\ settleTimer' = h.settleTimer
  /\ startTimeouts' = h.startTimeouts
  /\ listeners' = h.listeners
  /\ boundElement' = h.bound
  /\ handlerTp' = h.handlerTp
  /\ recentlySelected' = h.recentlySelected
  /\ selections' = Min(h.selections, MaxSelections)
  /\ lastError' = h.error
  /\ lastOp' = op
  /\ lastCall' = IF isCall
                 THEN [op |-> op, from |-> Status, first |-> lastCall.op = "mount",
                       manual |-> \/ op = "pause" /\ Status = "Running" /\ ~timeoutPrevented
                                  \/ op = "interaction" /\ lastCall.manual]
                 ELSE lastCall
  /\ quiet' = IF isCall THEN 0 ELSE quiet
  /\ sinceCall' = IF isCall THEN 0
                  ELSE Min(sinceCall + (h.selections - selections), MaxSelections)
  /\ UNCHANGED <<autoStart, selector, loader, cycler, categorized, handler>>

\* mutant of CountrySelector: maxRecentSize is not limited to length - 1
CountrySelector_NoClamp(configured, n) ==
  [length |-> n, maxRecentSize |-> configured, recentlySelected |-> <<>>,
   returned |-> <<>>, calls |-> 0, clears |-> 0, retries |-> 0, configured |-> configured]

\* new CountrySelector(configured) over a catalog of n entries
CountrySelector(configured, n) ==
  [length |-> n, maxRecentSize |-> Min(configured, n - 1), recentlySelected |-> <<>>,
   returned |-> <<>>, calls |-> 0, clears |-> 0, retries |-> 0, configured |-> configured]

\* the hook before its first commit
HookInit ==
  /\ phase = "created"
  /\ autoStart \in BOOLEAN
  /\ timeoutPrevented \in BOOLEAN
  /\ isActive = FALSE
  /\ isPaused = FALSE
  /\ currentCountry = NoCountry
  /\ cycleTimer = NoTimer
  /\ idleTimer = NoTimer
  /\ liveIntervals = 0
  /\ liveTimeouts = 0
  /\ settleTimer = NoTimer
  /\ startTimeouts = <<>>
  /\ listeners = <<>>
  /\ boundElement = NoElement
  /\ handlerTp = FALSE
  /\ recentlySelected = <<>>
  /\ selections = 0
  /\ lastError = "none"
  /\ lastOp = "create"
  /\ lastCall = [op |-> "create", from |-> "Stopped", first |-> FALSE, manual |-> FALSE]
  /\ quiet = 0
  /\ sinceCall = 0

\* CountryCycler as first rendered with a map: nothing shown, no timeout pending
CountryCycler ==
  [country |-> NoCountry, center |-> NoCountry, zoom |-> NoCountry,
   notified |-> NoCountry, zoomTimeouts |-> <<>>, lastError |-> "none", op |-> "create"]

\* Thrown values.  An Error carries a message, of which the model keeps what
\* the keyword tests of createMapError can see: "missing" (includes
\* 'missing'), "apiKey", "network", "load" (a keyword of isApiKeyError,
\* isNetworkError, isApiLoadError occurs).  A MapError is a plain object.
NoError == [isError |-> FALSE, tags |-> {}, type |-> "none", retryable |-> FALSE,
            offline |-> FALSE]
NewError(tags) == [NoError EXCEPT !.isError = TRUE, !.tags = tags]
MapError(type, retryable) == [NoError EXCEPT !.type = type, !.retryable = retryable]

\* new ErrorHandler(3, 1000): maxRetries; waits are counted in retryDelays
maxRetries == 3

\* new ErrorHandler(maxRetries, retryDelay)
ErrorHandler(max, delay) ==
  [maxRetries |-> max, retryDelay |-> delay, retryCount |-> 0, online |-> TRUE,
   calls |-> 0, given |-> "absent", phase |-> "idle", fresh |-> TRUE,
   invocations |-> 0, waits |-> <<>>, first |-> NoError, last |-> NoError,
   thrown |-> NoError, op |-> "new"]

\* no call of createMapError is being looked at
NoCall ==
  [text |-> {}, object |-> FALSE, given |-> "absent", result |-> NoError,
   again |-> "none", second |-> NoError]

\* google-maps.ts as loaded: let isLoading = false, isLoaded = false,
\* loadPromise = null, errorHandler = new ErrorHandler(3, 1000)
LoaderModule(key, online) ==
  [isLoading |-> FALSE, isLoaded |-> FALSE, loadPromise |-> 0, retryCount |-> 0,
   online |-> online, key |-> key, google |-> "none", chains |-> <<>>,
   op |-> "import", last |-> "none", thrown |-> NoError, resolved |-> FALSE]

\* the module-level instance: export const countrySelector = new CountrySelector()
Init ==
  /\ HookInit
  /\ selector = CountrySelector(DefaultMaxRecentSize, NumCountries)
  /\ loader = LoaderModule("valid", TRUE)
  /\ cycler = CountryCycler
  /\ categorized = NoCall
  /\ handler = ErrorHandler(maxRetries, 1)

\* the first commit: every effect runs
Mount ==
  /\ phase = "created"
  /\ \E d1 \in Draw, d2 \in Draw :
       LET h == Store(<<d1, d2>>)
       IN Install(Commit(RunMountEffects(h, Render(h)), Render(h)), "mount", TRUE)
  /\ phase' = "mounted"

\* an API call, made through the functions of the latest render
Call(op, h1) ==
  /\ phase = "mounted"
  /\ Install(Commit(h1, Render(Store(<<>>))), op, TRUE)
  /\ UNCHANGED phase

Start == \E d \in Draw : Call("start", start(Store(<<d>>), currentCountry))

Stop == Call("stop", stop(Store(<<>>)))

Pause == Call("pause", pause(Store(<<>>)))

Resume == Call("resume", resume(Store(<<>>), isActive))

NextCountry == \E d \in AdvanceDraw : Call("nextCountry", nextCountry(Store(<<d>>)))

Bind ==
  \E e \in Elements \cup {NoElement} :
    Call("bind", setupUserInteractionDetection(Store(<<>>), e, timeoutPrevented))

\* a qualifying event reaches an attached listener
Interaction ==
  /\ listeners # <<>>
  /\ Call("interaction", handleUserInteraction(Store(<<>>), handlerTp))

\* the parent re-renders the hook with another timeoutPrevented
SetTimeoutPrevented ==
  Call("setTimeoutPrevented", [Store(<<>>) EXCEPT !.timeoutPrevented = ~timeoutPrevented])

Unmount ==
  /\ phase = "mounted"
  /\ Install(unmount(Store(<<>>)), "unmount", TRUE)
  /\ phase' = "unmounted"

\* a timer callback; it runs whether or not the hook is still mounted
Fire(op, h1) ==
  /\ phase # "created"
  /\ Install(Commit(h1, Render(Store(<<>>))), op, FALSE)
  /\ UNCHANGED phase

CycleTimerFire ==
  /\ cycleTimer = 0
  /\ \E d \in AdvanceDraw :
       Fire("cycleTimer", nextCountry([Store(<<d>>) EXCEPT !.cycleTimer = CycleInterval]))

\* a one-shot timeout of the hook is due: the idle timer or the settling timeout
TimeoutFire ==
  \E t \in {"idleTimer", "settleTimer"} :
    /\ (IF t = "idleTimer" THEN idleTimer ELSE settleTimer) = 0
    /\ Fire(t, IF t = "idleTimer" THEN idleTimerCallback(Store(<<>>))
                ELSE settleTimerCallback(Store(<<>>)))

StartTimeoutFire ==
  /\ startTimeouts # <<>>
  /\ \E d \in Draw :
       Fire("startTimeout",
            start([Store(<<d>>) EXCEPT !.startTimeouts = Tail(@)], Head(startTimeouts)))

\* time passes: no timer is due
Dec(t) == IF t = NoTimer THEN NoTimer ELSE t - 1

\* the clock stops that long after the last call: every timer has fired by then
MaxQuiet == IF IdleTimeout > 2 * CycleInterval THEN IdleTimeout ELSE 2 * CycleInterval

Tick ==
  /\ phase # "created"
  /\ cycleTimer # 0 /\ idleTimer # 0 /\ settleTimer # 0 /\ startTimeouts = <<>>
  /\ quiet < MaxQuiet
  /\ cycleTimer' = Dec(cycleTimer)
  /\ idleTimer' = Dec(idleTimer)
  /\ settleTimer' = Dec(settleTimer)
  /\ quiet' = quiet + 1
  /\ lastOp' = "tick"
  /\ lastError' = "none"
  /\ UNCHANGED <<phase, autoStart, timeoutPrevented, isActive, isPaused, currentCountry,
                 startTimeouts, listeners, handlerTp, recentlySelected, selections,
                 lastCall, sinceCall, liveIntervals, liveTimeouts,
                 selector, loader, cycler, categorized, handler>>
  /\ boundElement' = NoElement

Next ==
  \/ Mount
  \/ Start
  \/ Stop
  \/ Pause
  \/ Resume
  \/ NextCountry
  \/ Bind
  \/ Interaction
  \/ SetTimeoutPrevented
  \/ Unmount
  \/ CycleTimerFire
  \/ TimeoutFire
  \/ StartTimeoutFire
  \/ Tick

Spec == Init /\ [][Next]_vars

\* ------------------------------------------- the CountrySelector class alone
\* a value of Math.random(), as a multiple of 1/MaxCatalog
SelectorDraw == 0..(MaxCatalog - 1)
\* the window of returned codes the model remembers
MaxReturned == MaxConfigured + 1

\* COUNTRIES.filter(country => !this.recentlySelected.has(country.code))
filterAvailable(n, recent) ==
  SelectSeq([i \in 1..n |-> i], LAMBDA c : \A k \in 1..Len(recent) : recent[k] # c)

\* mutant of evictOldest: the set is left to grow
evictOldest_Never(recent, max) == recent

\* mutant of evictOldest: the item added last is deleted
evictOldest_Newest(recent, max) ==
  IF Len(recent) > max THEN SubSeq(recent, 1, Len(recent) - 1) ELSE recent

\* if (this.recentlySelected.size > this.maxRecentSize) delete the first item
evictOldest(recent, max) == IF Len(recent) > max THEN Tail(recent) ELSE recent

\* mutant of selectRandomCountryOf: the filter is not applied
RECURSIVE selectRandomCountryOf_NoFilter(_, _, _)
selectRandomCountryOf_NoFilter(sel, rnd, depth) ==
  LET av == [i \in 1..sel.length |-> i]
      randomIndex == (rnd * Len(av)) \div MaxCatalog
      selectedCountry == av[randomIndex + 1]
      added == IF \E k \in 1..Len(sel.recentlySelected) :
                      sel.recentlySelected[k] = selectedCountry
               THEN sel.recentlySelected
               ELSE Append(sel.recentlySelected, selectedCountry)
  IN [sel EXCEPT !.recentlySelected = evictOldest(added, sel.maxRecentSize),
                 !.returned = IF Len(@) = MaxReturned
                              THEN Append(Tail(@), selectedCountry)
                              ELSE Append(@, selectedCountry),
                 !.retries = depth]

\* CountrySelector.selectRandomCountry on the instance sel; depth counts the
\* recursive calls
RECURSIVE selectRandomCountryOf(_, _, _)
selectRandomCountryOf(sel, rnd, depth) ==
  LET av == filterAvailable(sel.length, sel.recentlySelected) IN
  IF Len(av) = 0
  THEN selectRandomCountryOf([sel EXCEPT !.recentlySelected = <<>>,
                                          !.clears = Min(@ + 1, MaxCalls)],
                             rnd, depth + 1)
  ELSE LET randomIndex == (rnd * Len(av)) \div MaxCatalog
           selectedCountry == av[randomIndex + 1]
       IN [sel EXCEPT !.recentlySelected = evictOldest(Append(@, selectedCountry),
                                                        sel.maxRecentSize),
                      !.returned = IF Len(@) = MaxReturned
                                   THEN Append(Tail(@), selectedCountry)
                                   ELSE Append(@, selectedCountry),
                      !.retries = depth]

SelectorInit ==
  /\ HookInit /\ autoStart /\ ~timeoutPrevented
  /\ \E n \in 2..MaxCatalog, configured \in 1..MaxConfigured :
       selector = CountrySelector(configured, n)
  /\ loader = LoaderModule("valid", TRUE)
  /\ cycler = CountryCycler
  /\ categorized = NoCall
  /\ handler = ErrorHandler(maxRetries, 1)

SelectRandomCountry ==
  /\ \E rnd \in SelectorDraw :
       selector' = [selectRandomCountryOf(selector, rnd, 0)
                      EXCEPT !.calls = Min(selector.calls + 1, MaxCalls)]
  /\ UNCHANGED <<hookVars, loader, cycler, categorized, handler>>

\* reset(): a new run of consecutive calls begins
Reset ==
  /\ selector.calls > 0
  /\ selector' = [selector EXCEPT !.recentlySelected = <<>>, !.returned = <<>>,
                                  !.calls = 0, !.clears = 0, !.retries = 0]
  /\ UNCHANGED <<hookVars, loader, cycler, categorized, handler>>

SelectorNext ==
  \/ SelectRandomCountry
  \/ Reset

SelectorSpec == SelectorInit /\ [][SelectorNext]_vars

\* the settling timeout is never created: whenever the last effect runs with an
\* active, unpaused render, an earlier effect of the same commit has already
\* created the advance timer
SettleTimerNeverSet == settleTimer = NoTimer

\* ------------------------------------------------------------ properties
Mounted == phase = "mounted"
NoTimerDue == cycleTimer # 0 /\ idleTimer # 0 /\ settleTimer # 0 /\ startTimeouts = <<>>

\* C1 (as claimed): after an interaction event that found the controller
\* Running with timeoutPrevented false, and with no other call since, the
\* controller is RunningPaused with the idle timer pending for as long as
\* idleTimeout has not elapsed.
C1_PausedUntilIdleTimeout ==
  (/\ Mounted
   /\ lastCall.op = "interaction" /\ lastCall.from = "Running"
   /\ ~timeoutPrevented
   /\ quiet < IdleTimeout)
  => (Status = "RunningPaused" /\ idleTimer # NoTimer)

\* C2 (as claimed): after pause() on a Running controller, and with no other
\* call since, the controller is RunningPaused, neither timer is live and no
\* selection has been made, however much time has passed.
C2_PauseHolds ==
  (Mounted /\ lastCall.op = "pause" /\ lastCall.from = "Running")
  => (/\ Status = "RunningPaused"
      /\ cycleTimer = NoTimer /\ idleTimer = NoTimer
      /\ sinceCall = 0)

\* C3 (as claimed): after stop(), and with no other call since, the
\* controller is Stopped and no selection has been made, whatever autoStart is
\* and however much time has passed.
C3_StopHolds ==
  (Mounted /\ lastCall.op = "stop") => (~isActive /\ sinceCall = 0)

\* C4 (as claimed): in every state of a mounted controller, isActive = false
\* implies isPaused = false.
C4_InactiveNotPaused == Mounted => (~isActive => ~isPaused)

\* C5: while timeoutPrevented is true on a mounted controller no timer is
\* live, an active controller is paused, the last step was not a firing of
\* the advance or idle timer, and a controller that was active when the flag
\* became true is RunningPaused for as long as no other call is made.
C5_OverrideSuppresses ==
  (Mounted /\ timeoutPrevented)
  => (/\ cycleTimer = NoTimer /\ idleTimer = NoTimer /\ settleTimer = NoTimer
      /\ (isActive => isPaused)
      /\ lastOp \notin {"cycleTimer", "idleTimer"}
      /\ (lastCall.op = "setTimeoutPrevented" /\ lastCall.from # "Stopped"
            => Status = "RunningPaused"))

C5_Witness ==
  /\ Mounted /\ timeoutPrevented
  /\ lastCall.op = "setTimeoutPrevented" /\ lastCall.from = "Running"
  /\ quiet >= IdleTimeout
  /\ Status = "RunningPaused"

\* C6: once timeoutPrevented has gone from true to false, and until the
\* settling delay has elapsed with no other call, a controller that was
\* RunningPaused, or that was Stopped with autoStart configured, is Running;
\* its advance timer is live when the settling delay has elapsed.
C6_OverrideLifted ==
  (/\ Mounted /\ ~timeoutPrevented
   /\ lastCall.op = "setTimeoutPrevented"
   /\ (lastCall.from = "RunningPaused" \/ (lastCall.from = "Stopped" /\ autoStart))
   /\ quiet <= SettleDelay)
  => (/\ Status = "Running"
      /\ (quiet = SettleDelay /\ NoTimerDue => cycleTimer # NoTimer))

C6_Witness ==
  /\ Mounted /\ ~timeoutPrevented /\ ~autoStart
  /\ lastCall.op = "setTimeoutPrevented" /\ lastCall.from = "RunningPaused"
  /\ quiet = SettleDelay
  /\ Status = "Running" /\ cycleTimer # NoTimer

\* C7: an interaction event that arrives while timeoutPrevented is true
\* changes neither the state nor any timer: isActive, isPaused and
\* currentCountry keep their values, no timer is cancelled or created.
C7_InteractionIgnored ==
  [][(lastOp' = "interaction" /\ timeoutPrevented)
       => UNCHANGED <<isActive, isPaused, currentCountry, cycleTimer, idleTimer,
                      settleTimer, startTimeouts, listeners, selections>>]_vars

C7_Witness ==
  /\ Mounted /\ timeoutPrevented /\ lastOp = "interaction"
  /\ Status = "RunningPaused"

\* C8: for a controller created with autoStart = false (and the override
\* off), when start() is the first call: 1 selection has been made as long as
\* less than one cycleInterval has elapsed, and 2 once one cycleInterval has
\* elapsed and the advance timer has fired.
C8_StartThenOneInterval ==
  (/\ Mounted /\ ~autoStart /\ ~timeoutPrevented
   /\ lastCall.op = "start" /\ lastCall.first)
  => (/\ (quiet < CycleInterval => selections = 1)
      /\ (quiet = CycleInterval /\ cycleTimer # 0 => selections = 2))

C8_Witness ==
  /\ Mounted /\ ~autoStart /\ ~timeoutPrevented
  /\ lastCall.op = "start" /\ lastCall.first
  /\ quiet = CycleInterval /\ lastOp = "cycleTimer"
  /\ selections = 2

\* C9 (as claimed): after start(), for either autoStart setting and with no
\* other call since, a controller that is Running with the override off has
\* its advance timer live; and when start() was the first call of a
\* controller created with autoStart = false, k selections have been made
\* once k cycleIntervals have elapsed, for k = 1, 2.
C9_KeepsCycling ==
  /\ (/\ Mounted /\ lastCall.op = "start"
      /\ Status = "Running" /\ ~timeoutPrevented /\ NoTimerDue)
       => cycleTimer # NoTimer
  /\ (/\ Mounted /\ ~autoStart /\ ~timeoutPrevented
      /\ lastCall.op = "start" /\ lastCall.first /\ NoTimerDue)
       => \A k \in 1..2 : quiet = k * CycleInterval => sinceCall = k

\* C10 (as claimed): once the controller is unmounted no selection is made,
\* no timer is live and no interaction listener is attached.
C10_NothingAfterUnmount ==
  phase = "unmounted"
  => (/\ sinceCall = 0
      /\ cycleTimer = NoTimer /\ idleTimer = NoTimer /\ settleTimer = NoTimer
      /\ listeners = <<>>)

\* C11: when the selection throws during an advance (a firing of the advance
\* timer or a nextCountry() call), the error is logged and does not leave the
\* handler, currentCountry, isActive and isPaused keep their values, the
\* timers are as before (the firing interval is re-armed for a full
\* cycleInterval), and the failed attempt is counted as a selection attempt.
C11_SelectionErrorAbsorbed ==
  [][(lastOp' \in {"cycleTimer", "nextCountry"} /\ lastError' # "none")
       => (/\ lastError' = "logged"
           /\ UNCHANGED <<isActive, isPaused, currentCountry, idleTimer, settleTimer,
                          startTimeouts, listeners, recentlySelected>>
           /\ cycleTimer' = IF lastOp' = "cycleTimer" THEN CycleInterval ELSE cycleTimer)]_vars

C11_Witness ==
  /\ Mounted /\ lastOp = "cycleTimer" /\ lastError = "logged"
  /\ Status = "Running" /\ cycleTimer = CycleInterval

\* C12: resume() called in RunningPaused leaves the controller Running with a
\* live advance timer, and resume() called while Stopped leaves isActive and
\* isPaused false and creates no advance timer.
C12_ResumeContract ==
  (Mounted /\ lastOp = "resume")
    => /\ lastCall.from = "RunningPaused" => (Status = "Running" /\ cycleTimer # NoTimer)
       /\ lastCall.from = "Stopped" => (~isActive /\ ~isPaused /\ cycleTimer = NoTimer)

\* C13: a controller created with autoStart = false has, until the first call
\* made on it, no current country, isActive and isPaused false, no selection
\* made and no timer.
C13_IdleUntilStarted ==
  (Mounted /\ ~autoStart /\ lastCall.op = "mount")
    => /\ currentCountry = NoCountry /\ ~isActive /\ ~isPaused
       /\ selections = 0
       /\ cycleTimer = NoTimer /\ idleTimer = NoTimer /\ startTimeouts = <<>>

\* --------------------------------------------------- the script loader
Keys == {"valid", "missing", "invalid"}

\* 'Google Maps API key is missing. Please set ...'
KeyMissingMessage == {"apiKey", "missing"}
\* 'Please replace the placeholder Google Maps API key ...' and
\* 'Google Maps API key appears to be invalid. ...'
KeyInvalidMessage == {"apiKey"}
\* 'Google Maps API loading timed out'
TimedOutMessage == {"load"}
\* 'Failed to load Google Maps API script. This could be due to network
\* issues, invalid API key, or API restrictions.'
ScriptFailedMessage == {"apiKey", "network", "load"}

\* error instanceof Error ? error.message : String(error); String of a
\* MapError is '[object Object]', where no keyword occurs
errorMessage(error) == IF error.isError THEN error.tags ELSE {}

\* mutant of createMapError: an invalid key is reported as retryable
createMapError_InvalidKeyRetryable(error, context) ==
  LET message == errorMessage(error) IN
  IF context = "api_key" \/ "apiKey" \in message
  THEN IF "missing" \in message THEN MapError("api_key_missing", FALSE)
       ELSE MapError("api_key_invalid", TRUE)
  ELSE IF context = "network" \/ "network" \in message THEN MapError("network_error", TRUE)
  ELSE IF context = "api_load" \/ "load" \in message THEN MapError("api_load_failed", TRUE)
  ELSE IF context = "map_init" THEN MapError("map_init_failed", TRUE)
  ELSE MapError("unknown", TRUE)

createMapError(error, context) ==
  LET message == errorMessage(error) IN
  IF context = "api_key" \/ "apiKey" \in message
  THEN IF "missing" \in message
       THEN MapError("api_key_missing", FALSE)
       ELSE MapError("api_key_invalid", FALSE)
  ELSE IF context = "network" \/ "network" \in message
  THEN MapError("network_error", TRUE)
  ELSE IF context = "api_load" \/ "load" \in message
  THEN MapError("api_load_failed", TRUE)
  ELSE IF context = "map_init"
  THEN MapError("map_init_failed", TRUE)
  ELSE MapError("unknown", TRUE)

isOffline(l) == ~l.online
createOfflineError == [MapError("network_error", TRUE) EXCEPT !.offline = TRUE]

\* one executeWithRetry call:
\*   phase  "script"      fn awaits the events of the script it appended
\*          "polling"     onload has run, setTimeout(checkApiReady, 50) is pending
\*          "fnRejected"  fn's promise is rejected with err, the catch has not run yet
\*          "fnResolved"  fn's promise is resolved, the continuation has not run yet
\*          "waiting"     the retry delay is pending
\*          "resolved", "rejected"   the call has settled (with err)
\*   attempts  invocations of fn;  appended  a script element was appended
NewChain == [phase |-> "new", err |-> NoError, attempts |-> 0, appended |-> FALSE]
InFlightPhases == {"script", "polling"}
InFlight(l) == {c \in 1..Len(l.chains) : l.chains[c].phase \in InFlightPhases}
Pending(l) == {c \in 1..Len(l.chains) : l.chains[c].phase \in {"fnRejected", "fnResolved"}}
Unsettled(l) == {c \in 1..Len(l.chains) : l.chains[c].phase \notin {"resolved", "rejected"}}

\* validateGoogleMapsApiKey: the Error it throws, NoError when it returns
validateGoogleMapsApiKey(l) ==
  IF l.key = "missing" THEN NewError(KeyMissingMessage)
  ELSE IF l.key = "invalid" THEN NewError(KeyInvalidMessage)
  ELSE NoError

\* the async function passed to executeWithRetry, up to its first suspension
loadStep(l, c) ==
  LET thrown == validateGoogleMapsApiKey(l)
      l1 == [l EXCEPT !.chains[c].attempts = @ + 1]
  IN IF thrown # NoError
     THEN [l1 EXCEPT !.chains[c].phase = "fnRejected",
                     !.chains[c].err = createMapError(thrown, "api_key")]
     ELSE IF l.google # "none"
     THEN [l1 EXCEPT !.isLoaded = TRUE, !.isLoading = FALSE,
                     !.chains[c].phase = "fnResolved"]
     ELSE [l1 EXCEPT !.isLoading = TRUE,
                     !.chains[c].phase = "script",
                     !.chains[c].appended = TRUE]

\* mutant of loadGoogleMapsAPI: the connection is not checked first
loadGoogleMapsAPI_NoOfflineCheck(l) ==
  IF l.isLoading /\ l.loadPromise # 0
  THEN [l EXCEPT !.last = "joined", !.thrown = NoError]
  ELSE IF l.isLoaded
  THEN [l EXCEPT !.last = "resolved", !.thrown = NoError, !.resolved = TRUE]
  ELSE LET c == Len(l.chains) + 1
           l1 == [l EXCEPT !.chains = Append(@, NewChain),
                           !.loadPromise = c,
                           !.last = "started", !.thrown = NoError]
       IN loadStep(l1, c)

\* loadGoogleMapsAPI, up to its return
loadGoogleMapsAPI(l) ==
  IF l.isLoading /\ l.loadPromise # 0
  THEN [l EXCEPT !.last = "joined", !.thrown = NoError]
  ELSE IF l.isLoaded
  THEN [l EXCEPT !.last = "resolved", !.thrown = NoError, !.resolved = TRUE]
  ELSE IF isOffline(l)
  THEN [l EXCEPT !.last = "rejected", !.thrown = createOfflineError]
  ELSE LET c == Len(l.chains) + 1
           l1 == [l EXCEPT !.chains = Append(@, NewChain),
                           !.loadPromise = c,
                           !.last = "started", !.thrown = NoError]
       IN loadStep(l1, c)

\* executeWithRetry after await fn(): the try branch and the catch branch
executeWithRetry(l, c) ==
  IF l.chains[c].phase = "fnResolved"
  THEN [l EXCEPT !.retryCount = 0, !.chains[c].phase = "resolved", !.resolved = TRUE]
  ELSE LET mapError == createMapError(l.chains[c].err, "api_load") IN
       IF ~mapError.retryable \/ l.retryCount >= maxRetries
       THEN [l EXCEPT !.chains[c].phase = "rejected", !.chains[c].err = mapError]
       ELSE IF mapError.type = "network_error" /\ isOffline(l)
       THEN [l EXCEPT !.chains[c].phase = "rejected", !.chains[c].err = createOfflineError]
       ELSE [l EXCEPT !.retryCount = @ + 1,
                      !.chains[c].phase = "waiting"]

\* checkApiReady
checkApiReady(l, c) ==
  IF l.google = "ready"
  THEN [l EXCEPT !.isLoaded = TRUE, !.isLoading = FALSE, !.chains[c].phase = "fnResolved"]
  ELSE [l EXCEPT !.chains[c].phase = "polling"]

\* mutant of scriptOnError: the failure also clears isLoaded
scriptOnError_ClearsLoaded(l, c) ==
  [l EXCEPT !.isLoading = FALSE, !.isLoaded = FALSE, !.loadPromise = 0,
            !.chains[c].phase = "fnRejected",
            !.chains[c].err = IF isOffline(l) THEN createOfflineError
                              ELSE createMapError(NewError(ScriptFailedMessage), "api_load")]

\* script.onerror
scriptOnError(l, c) ==
  [l EXCEPT !.isLoading = FALSE, !.loadPromise = 0,
            !.chains[c].phase = "fnRejected",
            !.chains[c].err = IF isOffline(l) THEN createOfflineError
                              ELSE createMapError(NewError(ScriptFailedMessage), "api_load")]

\* the 15 s timeout of the script
scriptTimeout(l, c) ==
  [l EXCEPT !.isLoading = FALSE, !.loadPromise = 0,
            !.chains[c].phase = "fnRejected",
            !.chains[c].err = createMapError(NewError(TimedOutMessage), "network")]

isGoogleMapsLoaded(l) ==
  IF l.google # "none" /\ ~l.isLoaded THEN [l EXCEPT !.isLoaded = TRUE] ELSE l

resetGoogleMapsLoadingState(l) ==
  [l EXCEPT !.isLoading = FALSE, !.isLoaded = FALSE, !.loadPromise = 0, !.resolved = FALSE]

\* ---- steps of LoaderSpec
LoaderStep(l, op) ==
  /\ loader' = [l EXCEPT !.op = op]
  /\ UNCHANGED <<hookVars, selector, cycler, categorized, handler>>

\* calls made by the code of one task run before the continuations that the
\* task left pending; events and timers run after them
CallOps == {"load", "query"}
CanCall == Pending(loader) = {} \/ loader.op \in CallOps
BetweenTasks == Pending(loader) = {}

LoaderInit ==
  /\ HookInit /\ autoStart /\ ~timeoutPrevented
  /\ selector = CountrySelector(DefaultMaxRecentSize, NumCountries)
  /\ \E key \in Keys, online \in BOOLEAN : loader = LoaderModule(key, online)
  /\ cycler = CountryCycler
  /\ categorized = NoCall
  /\ handler = ErrorHandler(maxRetries, 1)

Load ==
  /\ CanCall
  /\ LET l == loadGoogleMapsAPI(loader) IN
       /\ Len(l.chains) <= MaxLoads
       /\ LoaderStep(l, "load")

\* the oldest pending continuation of executeWithRetry
Continue ==
  /\ Pending(loader) # {}
  /\ LET c == CHOOSE c \in Pending(loader) : \A d \in Pending(loader) : c <= d
     IN LoaderStep(executeWithRetry(loader, c), "continue")

\* the script has run (window.google exists from now on) and onload fires
ScriptLoad ==
  /\ BetweenTasks
  /\ \E c \in 1..Len(loader.chains), g \in {"partial", "ready"} :
       /\ loader.chains[c].phase = "script"
       /\ loader.google = "ready" => g = "ready"
       /\ LoaderStep(checkApiReady([loader EXCEPT !.google = g], c), "event")

ScriptError ==
  /\ BetweenTasks
  /\ \E c \in 1..Len(loader.chains) :
       /\ loader.chains[c].phase = "script"
       /\ LoaderStep(scriptOnError(loader, c), "failure")

ScriptTimeout ==
  /\ BetweenTasks
  /\ \E c \in 1..Len(loader.chains) :
       /\ loader.chains[c].phase = "script"
       /\ LoaderStep(scriptTimeout(loader, c), "failure")

\* setTimeout(checkApiReady, 50)
Poll ==
  /\ BetweenTasks
  /\ \E c \in 1..Len(loader.chains) :
       /\ loader.chains[c].phase = "polling"
       /\ LoaderStep(checkApiReady(loader, c), "event")

\* the retry delay has passed: executeWithRetry calls itself
RetryTimer ==
  /\ BetweenTasks
  /\ \E c \in 1..Len(loader.chains) :
       /\ loader.chains[c].phase = "waiting"
       /\ LoaderStep(loadStep(loader, c), "event")

\* the maps library finishes initializing (MapTypeId appears)
GoogleReady ==
  /\ BetweenTasks
  /\ loader.google = "partial"
  /\ LoaderStep([loader EXCEPT !.google = "ready"], "event")

SetOnline ==
  /\ BetweenTasks
  /\ LoaderStep([loader EXCEPT !.online = ~@], "event")

IsGoogleMapsLoaded ==
  /\ CanCall
  /\ LoaderStep(isGoogleMapsLoaded(loader), "query")

IsGoogleMapsLoading ==
  /\ CanCall
  /\ LoaderStep(loader, "query")

\* the reset is for tests, which call it between tests: no load is pending
ResetGoogleMapsLoadingState ==
  /\ Unsettled(loader) = {}
  /\ LoaderStep(resetGoogleMapsLoadingState(loader), "reset")

LoaderNext ==
  \/ Load
  \/ Continue
  \/ ScriptLoad
  \/ ScriptError
  \/ ScriptTimeout
  \/ Poll
  \/ RetryTimer
  \/ GoogleReady
  \/ SetOnline
  \/ IsGoogleMapsLoaded
  \/ IsGoogleMapsLoading
  \/ ResetGoogleMapsLoadingState

LoaderSpec == LoaderInit /\ [][LoaderNext]_vars

\* What the event loop guarantees to one executeWithRetry call c: a pending
\* continuation runs; a script that was appended gets its onload or its onerror
\* or else the 15 s timeout fires; the 50 ms poll and the retry delay fire.
\* Nothing makes the library finish initializing, the caller call, or the
\* connection change.
ScriptEventOf(c) ==
  /\ BetweenTasks
  /\ c <= Len(loader.chains)
  /\ loader.chains[c].phase = "script"
  /\ \/ \E g \in {"partial", "ready"} :
          /\ loader.google = "ready" => g = "ready"
          /\ LoaderStep(checkApiReady([loader EXCEPT !.google = g], c), "event")
     \/ LoaderStep(scriptOnError(loader, c), "failure")
     \/ LoaderStep(scriptTimeout(loader, c), "failure")

TimerOf(c) ==
  /\ BetweenTasks
  /\ c <= Len(loader.chains)
  /\ \/ loader.chains[c].phase = "polling" /\ LoaderStep(checkApiReady(loader, c), "event")
     \/ loader.chains[c].phase = "waiting" /\ LoaderStep(loadStep(loader, c), "event")

LoaderFairness ==
  /\ WF_vars(Continue)
  /\ \A c \in 1..(MaxLoads + 1) : WF_vars(ScriptEventOf(c)) /\ WF_vars(TimerOf(c))

LoaderFairSpec == LoaderSpec /\ LoaderFairness

\* ----------------------------------------------------------- createMapError
\* A message is a set of phrases, each with or without upper-case letters.
\* The phrases stand for the entries of the keyword lists: 'api key' is one of
\* apiKeyIndicators, 'network' one of networkIndicators, 'script' one of
\* loadIndicators; 'missing' and 'failed' are in no list.
Phrases == {"api key", "missing", "network", "script", "failed"}
Texts == {t \in SUBSET (Phrases \X BOOLEAN) : Cardinality(t) <= MaxWords}

\* message.toLowerCase()
toLowerCase(text) == {<<w[1], FALSE>> : w \in text}
\* message.includes(phrase) for a lower-case phrase: case-sensitive
includes(text, phrase) == <<phrase, FALSE>> \in text

isApiKeyError(text) == includes(toLowerCase(text), "api key")
isNetworkError(text) == includes(toLowerCase(text), "network")
isApiLoadError(text) == includes(toLowerCase(text), "script")

\* what the tests of createMapError see of a message
tagsOf(text) ==
  {tag \in {"missing", "apiKey", "network", "load"} :
     \/ tag = "missing" /\ includes(text, "missing")
     \/ tag = "apiKey" /\ isApiKeyError(text)
     \/ tag = "network" /\ isNetworkError(text)
     \/ tag = "load" /\ isApiLoadError(text)}

\* the context parameter, 'map_init' by default
Contexts == {"api_key", "api_load", "map_init", "network"}
contextOf(given) == IF given = "absent" THEN "map_init" ELSE given

\* the value given as error: String(object) is '[object Object]'
errorOf(c) == IF c.object THEN MapError("unknown", TRUE) ELSE NewError(tagsOf(c.text))

CategorizeInit ==
  /\ HookInit /\ autoStart /\ ~timeoutPrevented
  /\ selector = CountrySelector(DefaultMaxRecentSize, NumCountries)
  /\ loader = LoaderModule("valid", TRUE)
  /\ cycler = CountryCycler
  /\ handler = ErrorHandler(maxRetries, 1)
  /\ \E text \in Texts, object \in BOOLEAN, given \in Contexts \cup {"absent"} :
       /\ object => text = {}
       /\ categorized = [NoCall EXCEPT !.text = text, !.object = object, !.given = given]

CreateMapError ==
  /\ categorized.result = NoError
  /\ categorized' = [categorized EXCEPT
                       !.result = createMapError(errorOf(categorized),
                                                 contextOf(categorized.given))]
  /\ UNCHANGED <<hookVars, selector, loader, cycler, handler>>

\* the object that createMapError returned is passed to it again, as the catch
\* branch of executeWithRetry does with what the load step threw
Recategorize ==
  /\ categorized.result # NoError /\ categorized.second = NoError
  /\ \E given \in Contexts \cup {"absent"} :
       categorized' = [categorized EXCEPT
                         !.again = given,
                         !.second = createMapError(categorized.result, contextOf(given))]
  /\ UNCHANGED <<hookVars, selector, loader, cycler, handler>>

CategorizeNext == CreateMapError \/ Recategorize

CategorizeSpec == CategorizeInit /\ [][CategorizeNext]_vars

\* ------------------------------------------------------------- ErrorHandler
\* what fn throws: an Error whose message has the given tags, or a MapError
Failures ==
  {NewError(tags) : tags \in {{}, {"network"}, {"load"}, {"apiKey"}, {"apiKey", "missing"}}}
    \cup {MapError("api_key_missing", FALSE)}

\* executeWithRetry(fn, context), the call itself: fn is invoked
execute(h, given) ==
  [h EXCEPT !.calls = @ + 1, !.given = given, !.phase = "invoked",
            !.fresh = (h.retryCount = 0), !.invocations = 1, !.waits = <<>>,
            !.first = NoError, !.last = NoError, !.thrown = NoError]

\* the try branch after await fn()
executeTry(h) == [h EXCEPT !.retryCount = 0, !.phase = "resolved"]

\* mutant of executeCatch: the limit is tested with > instead of >=
executeCatch_OneMore(h, error) ==
  LET mapError == createMapError(error, contextOf(h.given))
      h1 == [h EXCEPT !.last = mapError,
                      !.first = IF h.first = NoError THEN mapError ELSE @]
  IN IF ~mapError.retryable \/ h.retryCount > h.maxRetries
     THEN [h1 EXCEPT !.phase = "rejected", !.thrown = mapError]
     ELSE IF mapError.type = "network_error" /\ ~h.online
     THEN [h1 EXCEPT !.phase = "rejected", !.thrown = createOfflineError]
     ELSE [h1 EXCEPT !.retryCount = @ + 1, !.phase = "waiting",
                     !.waits = Append(@, h.retryDelay * (h.retryCount + 1))]

\* the catch branch, up to the await of the delay
executeCatch(h, error) ==
  LET mapError == createMapError(error, contextOf(h.given))
      h1 == [h EXCEPT !.last = mapError,
                      !.first = IF h.first = NoError THEN mapError ELSE @]
  IN IF ~mapError.retryable \/ h.retryCount >= h.maxRetries
     THEN [h1 EXCEPT !.phase = "rejected", !.thrown = mapError]
     ELSE IF mapError.type = "network_error" /\ ~h.online
     THEN [h1 EXCEPT !.phase = "rejected", !.thrown = createOfflineError]
     ELSE [h1 EXCEPT !.retryCount = @ + 1, !.phase = "waiting",
                     !.waits = Append(@, h.retryDelay * (h.retryCount + 1))]

\* return this.executeWithRetry(fn, context): fn is invoked again
executeAgain(h) == [h EXCEPT !.phase = "invoked", !.invocations = @ + 1]

RetryInit ==
  /\ HookInit /\ autoStart /\ ~timeoutPrevented
  /\ selector = CountrySelector(DefaultMaxRecentSize, NumCountries)
  /\ loader = LoaderModule("valid", TRUE)
  /\ cycler = CountryCycler
  /\ categorized = NoCall
  /\ \E max \in 0..MaxMaxRetries, delay \in 1..MaxRetryDelay :
       handler = ErrorHandler(max, delay)

HandlerStep(h, op) ==
  /\ handler' = [h EXCEPT !.op = op]
  /\ UNCHANGED <<hookVars, selector, loader, cycler, categorized>>

Settled == handler.phase \in {"idle", "resolved", "rejected"}

\* calls are made one after the other
Execute ==
  /\ Settled
  /\ handler.calls < MaxExecutes
  /\ \E given \in Contexts \cup {"absent"} : HandlerStep(execute(handler, given), "execute")

FnResolves ==
  /\ handler.phase = "invoked"
  /\ HandlerStep(executeTry(handler), "resolve")

FnRejects ==
  /\ handler.phase = "invoked"
  /\ \E error \in Failures : HandlerStep(executeCatch(handler, error), "reject")

RetryDelayFire ==
  /\ handler.phase = "waiting"
  /\ HandlerStep(executeAgain(handler), "retry")

HandlerReset ==
  /\ Settled
  /\ handler.retryCount # 0
  /\ HandlerStep([handler EXCEPT !.retryCount = 0], "reset")

HandlerSetOnline == HandlerStep([handler EXCEPT !.online = ~@], "online")

RetryNext ==
  \/ Execute
  \/ FnResolves
  \/ FnRejects
  \/ RetryDelayFire
  \/ HandlerReset
  \/ HandlerSetOnline

RetrySpec == RetryInit /\ [][RetryNext]_vars

\* ------------------------------------------------------------ CountryCycler
\* the call of the map that throws during one use of it ("none": no call throws)
NavigateFaults == {"none", "panTo", "setZoom"}
TransitionFaults == {"none", "panTo", "getZoom"}

\* navigateToCountry(country) as called in the try block of nextCountry:
\* map.panTo, then map.setZoom; what is thrown is caught and logged by nextCountry
navigateToCountry(c, country, fault) ==
  IF fault = "panTo" THEN [c EXCEPT !.lastError = "logged"]
  ELSE IF fault = "setZoom" THEN [c EXCEPT !.center = country, !.lastError = "logged"]
  ELSE [c EXCEPT !.center = country, !.zoom = country]

\* handleCountryTransition(country); differs: map.getZoom() !== country.zoom
\* (the zoom the map reports is the map's business: it may have limited the zoom
\* it was given, and the user may have zoomed)
handleCountryTransition(c, country, fault, differs) ==
  IF fault = "panTo" THEN [c EXCEPT !.lastError = "logged"]
  ELSE IF fault = "getZoom" THEN [c EXCEPT !.center = country, !.lastError = "logged"]
  ELSE [c EXCEPT !.center = country, !.notified = country,
                 !.zoomTimeouts = IF differs THEN Append(@, country) ELSE @]

\* the callback of setTimeout(.., 200): map.setZoom(country.zoom), with no
\* try block around it
delayedSetZoom(c, fault) ==
  LET c1 == [c EXCEPT !.zoomTimeouts = Tail(@)] IN
  IF fault THEN [c1 EXCEPT !.lastError = "uncaught"]
  ELSE [c1 EXCEPT !.zoom = Head(c.zoomTimeouts)]

CyclerInit ==
  /\ HookInit /\ autoStart /\ ~timeoutPrevented
  /\ selector = CountrySelector(DefaultMaxRecentSize, NumCountries)
  /\ loader = LoaderModule("valid", TRUE)
  /\ cycler = CountryCycler
  /\ categorized = NoCall
  /\ handler = ErrorHandler(maxRetries, 1)

CyclerStep(c, op) ==
  /\ cycler' = [c EXCEPT !.op = op]
  /\ UNCHANGED <<hookVars, selector, loader, categorized, handler>>

\* one advance of the hook: nextCountry() sets state.currentCountry and calls
\* navigateToCountry; the commit runs the effect on state.currentCountry, which
\* calls handleCountryTransition when the country has changed
Advance ==
  \E country \in {COUNTRIES[i] : i \in 1..Len(COUNTRIES)}, nav \in NavigateFaults, tr \in TransitionFaults,
     differs \in BOOLEAN :
    LET c0 == [cycler EXCEPT !.lastError = "none", !.country = country]
        c1 == navigateToCountry(c0, country, nav)
        c2 == IF country # cycler.country
              THEN handleCountryTransition(c1, country, tr, differs) ELSE c1
    IN /\ Len(c2.zoomTimeouts) <= MaxPendingZooms
       /\ CyclerStep(c2, "advance")

ZoomTimeoutFire ==
  /\ cycler.zoomTimeouts # <<>>
  /\ \E fault \in BOOLEAN :
       CyclerStep(delayedSetZoom([cycler EXCEPT !.lastError = "none"], fault), "zoomTimeout")

CyclerNext == Advance \/ ZoomTimeoutFire

CyclerSpec == CyclerInit /\ [][CyclerNext]_vars

\* ------------------------------------------- properties of SelectorSpec
Codes(seq) == {seq[k] : k \in 1..Len(seq)}
NoConsecutiveRepeat ==
  \A i \in 1..(Len(selector.returned) - 1) : selector.returned[i] # selector.returned[i + 1]

\* C14: when the catalog has more than maxRecentSize + 1 entries, any two of
\* maxRecentSize + 1 consecutive calls of selectRandomCountry return different
\* codes; in particular two consecutive calls do.
C14_NoRepeatWithinBound ==
  (selector.length > selector.maxRecentSize + 1)
    => /\ \A i, j \in 1..Len(selector.returned) :
            (i < j /\ j - i <= selector.maxRecentSize)
              => selector.returned[i] # selector.returned[j]
       /\ NoConsecutiveRepeat

\* a code comes back as soon as the bound allows it
C14_Witness ==
  /\ selector.length = 4 /\ selector.maxRecentSize = 2
  /\ Len(selector.returned) = 4
  /\ selector.returned[1] = selector.returned[4]

\* C15 (as claimed): with a catalog of 3 entries and maxRecentSize 2, no two
\* consecutive calls return the same code, and once 4 consecutive calls have
\* been made the selector has cleared recentlySelected at least once.
C15_ClearedByFourthCall ==
  (selector.length = 3 /\ selector.maxRecentSize = 2)
    => /\ NoConsecutiveRepeat
       /\ selector.calls >= 4 => selector.clears >= 1

\* C15 (amended): with a catalog of 3 entries and maxRecentSize 2, no two
\* consecutive calls return the same code, and the selector never clears
\* recentlySelected: from the second call on it holds the 2 codes returned
\* last.
C15_NeverCleared ==
  (selector.length = 3 /\ selector.maxRecentSize = 2)
    => /\ NoConsecutiveRepeat
       /\ selector.clears = 0
       /\ selector.calls >= 2
            => selector.recentlySelected =
                 SubSeq(selector.returned, Len(selector.returned) - 1,
                        Len(selector.returned))

C15_Witness ==
  /\ selector.length = 3 /\ selector.maxRecentSize = 2
  /\ selector.calls >= 5 /\ selector.clears = 0

\* C16: whatever the catalog size (2 or more) and the configured
\* maxRecentSize, recentlySelected never holds every code of the catalog
\* when a selection begins, and a call returns an entry of the catalog after
\* at most one recursive call.
C16_NeverAllSuppressed ==
  /\ Codes(selector.recentlySelected) # 1..selector.length
  /\ selector.retries <= 1
  /\ Codes(selector.returned) \subseteq 1..selector.length
  /\ selector.calls > 0 => selector.returned # <<>>

\* the configured size is cut down to length - 1 and the set is as full as
\* it gets
C16_Witness ==
  /\ selector.configured > selector.length - 1
  /\ Len(selector.recentlySelected) = selector.length - 1
  /\ selector.calls > selector.length

\* --------------------------------------------- properties of LoaderSpec
\* C17: at most one script load is in flight at any time.
C17_OneAcquisition == Cardinality(InFlight(loader)) <= 1

\* C18: once a load() has resolved (and until a reset), isLoaded is true and
\* isLoading is false, and every load() call resolves at once: it begins no
\* executeWithRetry call, makes no attempt and appends no script, whether
\* the browser is online or not.
C18_LoadedStaysUsable ==
  [][/\ loader'.resolved => (loader'.isLoaded /\ ~loader'.isLoading)
     /\ (loader.resolved /\ loader'.op = "load")
          => (loader'.last = "resolved" /\ loader'.chains = loader.chains)]_vars

\* C19: isLoaded, once true, stays true through every step other than the
\* reset.
C19_LoadedUntilReset ==
  [][(loader.isLoaded /\ loader'.op # "reset") => loader'.isLoaded]_vars

\* a script of another call fails while the loader is loaded
C19_Witness == loader.isLoaded /\ loader.op = "failure"

C27_BindReplacesListeners ==
  lastOp = "bind" =>
    IF boundElement = NoElement
    THEN listeners = <<>>
    ELSE /\ Len(listeners) = Len(eventTypes)
         /\ \A k \in 1..Len(listeners) :
              listeners[k] = [element |-> boundElement, eventType |-> eventTypes[k]]
         /\ \A j, k \in 1..Len(eventTypes) : j # k => eventTypes[j] # eventTypes[k]

\* C27 witness: a bind call with an element has just returned and its
\* listeners are attached
C27_Witness ==
  /\ lastOp = "bind"
  /\ boundElement = 2
  /\ lastCall.op = "bind"
  /\ listeners # <<>>
  /\ listeners[1].element = 2

\* C28: no error thrown by the map during a location change (panTo, getZoom,
\* setZoom, the delayed setZoom included) leaves the code that called the map:
\* each one is caught and logged
C28_DriverErrorsAbsorbed == cycler.lastError # "uncaught"

\* C29: at most one advance interval and at most one idle timeout are live at
\* any time, whatever the order of the calls, the effects, the settling
\* callback and the idle-timer callback
C29_OneTimerOfEachKind == liveIntervals <= 1 /\ liveTimeouts <= 1

\* C29 witness: start() has been called on a controller whose advance timer
\* was already running, and one interval is live
C29_Witness ==
  /\ Mounted /\ lastOp = "start" /\ lastCall.from = "Running" /\ ~lastCall.first
  /\ cycleTimer # NoTimer /\ liveIntervals = 1

\* C30 (as claimed): when an interaction has paused an active controller less
\* than idleTimeout ago, with the override off and no call since, a further
\* interaction leaves the controller RunningPaused with isActive, isPaused
\* and currentCountry as they were, and the idle timer starts again from
\* the full idleTimeout.
C30_InteractionRestartsIdle ==
  [][(/\ Mounted /\ ~timeoutPrevented /\ ~handlerTp
      /\ lastCall.op = "interaction" /\ lastCall.from # "Stopped"
      /\ quiet < IdleTimeout
      /\ lastOp' = "interaction")
     => (/\ Status' = "RunningPaused"
         /\ UNCHANGED <<isActive, isPaused, currentCountry>>
         /\ idleTimer' = IdleTimeout)]_vars

\* ------------------------------------------- properties of LoaderSpec (2)
Idle(l) == ~l.isLoading /\ ~l.isLoaded /\ l.loadPromise = 0

\* C22: a load() called in Idle while the environment is offline is rejected
\* at once with the offline error (kind network, retryable), begins no
\* acquisition (no executeWithRetry call, no script) and leaves the loader Idle
C22_OfflineLoadFailsAtOnce ==
  [][(loader'.op = "load" /\ Idle(loader) /\ isOffline(loader))
     => (/\ loader'.last = "rejected"
         /\ loader'.thrown = createOfflineError
         /\ loader'.thrown.type = "network_error" /\ loader'.thrown.retryable
         /\ loader'.chains = loader.chains
         /\ Idle(loader'))]_vars

\* C22 witness: a load() has just been rejected for being offline, in Idle,
\* after an earlier acquisition had failed
C22_Witness ==
  /\ loader.op = "load" /\ loader.last = "rejected" /\ loader.thrown.offline
  /\ Idle(loader) /\ ~loader.online
  /\ loader.chains # <<>>

\* C23 (as claimed): every executeWithRetry call that a load() has begun is
\* eventually settled, resolved or rejected, when continuations, script
\* events and timers are scheduled fairly
C23_EveryLoadSettles ==
  \A c \in 1..(MaxLoads + 1) :
    (Len(loader.chains) >= c)
      ~> (Len(loader.chains) >= c /\ loader.chains[c].phase \in {"resolved", "rejected"})

\* C24 (as claimed): a call of isGoogleMapsLoaded() or isGoogleMapsLoading()
\* leaves isLoading, isLoaded and loadPromise as they were, in every state of
\* the loader and of window.google
C24_QueriesArePure ==
  [][loader'.op = "query"
     => (/\ loader'.isLoading = loader.isLoading
         /\ loader'.isLoaded = loader.isLoaded
         /\ loader'.loadPromise = loader.loadPromise)]_vars

\* ---------------------------------------------- properties of CategorizeSpec
Returned == categorized.result # NoError

\* C25 (as claimed): the context given decides the kind whatever the message
\* says: 'api_key' gives a credential kind, 'network' gives network_error and
\* 'api_load' gives api_load_failed
C25_HintTakesPrecedence ==
  Returned =>
    /\ categorized.given = "api_key"
         => categorized.result.type \in {"api_key_missing", "api_key_invalid"}
    /\ categorized.given = "network" => categorized.result.type = "network_error"
    /\ categorized.given = "api_load" => categorized.result.type = "api_load_failed"

\* C26: createMapError returns retryable = false exactly for the kinds
\* api_key_missing and api_key_invalid, and an Error 'API key missing' with
\* the context 'api_key' gives api_key_missing, not retryable
C26_RetryableExceptCredential ==
  Returned =>
    /\ categorized.result.type \in {"api_key_missing", "api_key_invalid", "network_error",
                                     "api_load_failed", "map_init_failed", "unknown"}
    /\ ~categorized.result.retryable
         <=> categorized.result.type \in {"api_key_missing", "api_key_invalid"}
    /\ (/\ ~categorized.object
        /\ categorized.text = {<<"api key", TRUE>>, <<"missing", FALSE>>}
        /\ categorized.given = "api_key")
       => categorized.result = MapError("api_key_missing", FALSE)

\* C26 witness: createMapError has returned for 'API key missing' and 'api_key'
C26_Witness ==
  /\ Returned /\ ~categorized.object
  /\ categorized.text = {<<"api key", TRUE>>, <<"missing", FALSE>>}
  /\ categorized.given = "api_key"
  /\ ~categorized.result.retryable

\* --------------------------------------------------- properties of RetrySpec
FreshCallRejected == handler.fresh /\ handler.phase = "rejected"

\* C21 (as claimed): a call on a fresh handler whose fn failed each time with
\* an error categorized retryable is rejected after exactly maxRetries + 1
\* invocations, with the last categorized error; a call whose fn first failed
\* with an error categorized non-retryable has invoked fn once.
C21_RetriesThenRejects ==
  FreshCallRejected =>
    /\ handler.last.retryable
         => (handler.invocations = handler.maxRetries + 1 /\ handler.thrown = handler.last)
    /\ ~handler.first.retryable
         => (handler.invocations = 1 /\ handler.thrown = handler.last)

\* C21 (amended): the same, except that a failure categorized network_error
\* while the environment is offline, before the retries are used up, ends the
\* call at once with the offline error.
C21_RetriesUnlessOffline ==
  FreshCallRejected =>
    /\ (handler.last.retryable /\ ~handler.thrown.offline)
         => (handler.invocations = handler.maxRetries + 1 /\ handler.thrown = handler.last)
    /\ handler.thrown.offline
         => (/\ handler.last.type = "network_error"
             /\ handler.op = "reject" => ~handler.online
             /\ handler.invocations <= handler.maxRetries
             /\ handler.thrown = createOfflineError)
    /\ ~handler.first.retryable
         => (handler.invocations = 1 /\ handler.thrown = handler.last)

\* C21 witness: a fresh handler with maxRetries > 0 has rejected after
\* maxRetries + 1 invocations
C21_Witness ==
  /\ FreshCallRejected /\ handler.maxRetries > 0
  /\ handler.last.retryable /\ ~handler.thrown.offline
  /\ handler.invocations = handler.maxRetries + 1

\* ------------------------------------------- properties of LoaderSpec (3)
\* C31 (as claimed): whenever the loader reports loaded, or a load() has
\* resolved since the last reset, the maps library is fully initialized
\* (window.google.maps.MapTypeId exists)
C31_LoadedOnlyWhenReady ==
  (loader.isLoaded \/ loader.resolved) => loader.google = "ready"

\* the executeWithRetry calls whose script fails in the step
FailedNow(c) ==
  /\ c <= Len(loader.chains)
  /\ loader.chains[c].phase = "script"
  /\ loader'.chains[c].phase = "fnRejected"

\* C32 (as claimed): a script error or the loading timeout leaves the loader
\* Idle (isLoading and isLoaded false, loadPromise null) and rejects the
\* attempt with an error categorized retryable; a load() called in Idle while
\* online begins a new acquisition
C32_FailureRevertsToIdle ==
  [][/\ loader'.op = "failure"
          => /\ Idle(loader')
             /\ \A c \in 1..(MaxLoads + 1) : FailedNow(c) => loader'.chains[c].err.retryable
     /\ (loader'.op = "load" /\ Idle(loader) /\ ~isOffline(loader))
          => (loader'.last = "started" /\ Len(loader'.chains) = Len(loader.chains) + 1)]_vars

\* ------------------------------------------- properties of SelectorSpec (2)
\* C33: after every call of selectRandomCountry, recentlySelected holds exactly
\* the codes returned by the last min(k, B) calls, oldest first, where k counts
\* the calls since creation or the last reset() and B is the smaller of the
\* configured size and the catalog size less one; so it never holds more than B
\* codes, the code dropped is the oldest, and it is empty after reset()
C33_RecentIsLastReturned ==
  LET B == Min(selector.configured, selector.length - 1)
      m == Min(selector.calls, B)
      n == Len(selector.returned)
  IN /\ Len(selector.recentlySelected) <= B
     /\ n >= m
     /\ selector.recentlySelected = SubSeq(selector.returned, n - m + 1, n)

\* C33 witness: more calls than the bound have been made, so the oldest code
\* has been dropped at least twice, on a selector whose configured size was
\* cut down to the catalog size less one
C33_Witness ==
  /\ selector.configured > selector.length - 1
  /\ selector.length = 3
  /\ selector.calls = 4
  /\ Len(selector.recentlySelected) = 2

\* ----------------------------------------------- properties of RetrySpec (2)
\* C34 (as claimed): within one executeWithRetry call the k-th retry is
\* preceded by a wait of retryDelay * k: the first retry waits one retryDelay
\* and each later one a retryDelay more than the one before
C34_WaitsGrowFromOne ==
  \A k \in 1..Len(handler.waits) : handler.waits[k] = handler.retryDelay * k

\* C37 (as claimed): every executeWithRetry call has maxRetries retries of its
\* own: a call rejected on a failure categorized retryable (the offline
\* short-circuit apart) has invoked fn maxRetries + 1 times, whatever the
\* earlier calls on the handler did
C37_BudgetPerCall ==
  (handler.phase = "rejected" /\ handler.last.retryable /\ ~handler.thrown.offline)
    => handler.invocations = handler.maxRetries + 1

\* ------------------------------------------- properties of LoaderSpec (4)
\* C38 (as claimed): isLoading and isLoaded are never both true
C38_LoadingXorLoaded ==
  ~(loader.isLoading /\ loader.isLoaded)

\* ------------------------------------------------- properties of Spec (4)
\* C35 (as claimed): an advance, by the cycle timer or by nextCountry(), with
\* all the reactions to it, leaves isActive and isPaused as they were
C35_AdvanceKeepsStatus ==
  [][(Mounted /\ lastOp' \in {"cycleTimer", "nextCountry"})
       => (isActive' = isActive /\ isPaused' = isPaused)]_vars

\* C36 (as claimed): the listeners attached by bind(element) stay attached
\* until the next bind() or the unmount: no other call and no timer detaches them
C36_ListenersStayAttached ==
  [][(Mounted /\ listeners # <<>> /\ lastOp' \notin {"bind", "unmount"})
       => listeners' = listeners]_vars

\* C39 (as claimed): with the override off, interaction events that arrive
\* after a pause() of a Running controller leave it RunningPaused, however
\* much time passes: neither they nor the idle timer they arm resume it
C39_ManualPauseSurvivesInteraction ==
  (Mounted /\ lastCall.op = "interaction" /\ lastCall.manual /\ ~timeoutPrevented)
    => Status = "RunningPaused"

====
